---------------------------- MODULE Spec2Model ----------------------------
(***************************************************************************)
(* Model of src/Api.py: the OpenID4VP presentation-session engine.         *)
(*                                                                         *)
(* Python strings are sequences of code points (naturals), byte strings    *)
(* are sequences of naturals below 256.  Decoded JSON values are records   *)
(* of one uniform shape, see JNull .. JObj.  Python's None and JSON null   *)
(* are the same value, as they are after json.loads.                       *)
(***************************************************************************)
EXTENDS Integers, Sequences, FiniteSets, TLC

(***************************************************************************)
(* JSON values as json.loads returns them.                                 *)
(*   t : "null" | "bool" | "num" | "str" | "arr" | "obj"                   *)
(*   n : the number (num) or 0/1 (bool)                                    *)
(*   s : the code points (str)                                             *)
(*   c : the elements (arr: k is empty) or the members in insertion order  *)
(*       (obj), each [k |-> key code points, v |-> value]                  *)
(***************************************************************************)
JNull == [t |-> "null", n |-> 0, s |-> <<>>, c |-> <<>>]

JBool(b) == [t |-> "bool", n |-> IF b THEN 1 ELSE 0, s |-> <<>>, c |-> <<>>]

JNum(n) == [t |-> "num", n |-> n, s |-> <<>>, c |-> <<>>]

JStr(s) == [t |-> "str", n |-> 0, s |-> s, c |-> <<>>]

JArr(items) == [t |-> "arr", n |-> 0, s |-> <<>>, c |-> items]

JObj(members) == [t |-> "obj", n |-> 0, s |-> <<>>, c |-> members]

\* one array element, stored in the shape of an object member
Elem(v) == [k |-> <<>>, v |-> v]

\* dict.__setitem__ while json.loads builds an object: a repeated key keeps
\* its first position and takes the last value
DictPut(members, k, v) ==
    IF \E i \in 1..Len(members) : members[i].k = k
    THEN [i \in 1..Len(members) |->
            IF members[i].k = k THEN [k |-> k, v |-> v] ELSE members[i]]
    ELSE Append(members, [k |-> k, v |-> v])

\* Python truthiness of a decoded JSON value
Truthy(j) ==
    CASE j.t = "null" -> FALSE
      [] j.t = "bool" -> j.n = 1
      [] j.t = "num"  -> j.n # 0
      [] j.t = "str"  -> Len(j.s) > 0
      [] OTHER        -> Len(j.c) > 0

(***************************************************************************)
(* decode_base64url and base64.b64decode (binascii.a2b_base64, non-strict) *)
(***************************************************************************)
\* the 6-bit value of a character of the standard alphabet, 64 for any other
B64Value(ch) ==
    CASE ch >= 65 /\ ch <= 90  -> ch - 65
      [] ch >= 97 /\ ch <= 122 -> ch - 71
      [] ch >= 48 /\ ch <= 57  -> ch + 4
      [] ch = 43               -> 62
      [] ch = 47               -> 63
      [] OTHER                 -> 64

\* a character the decoder does not skip: '=' or one of the alphabet
IsB64OrPad(ch) == ch = 61 \/ B64Value(ch) < 64

IsB64(ch) == B64Value(ch) < 64

\* the largest element of a non-empty set of naturals
Max(S) == CHOOSE m \in S : \A x \in S : x <= m

\* the smallest element of a non-empty set of naturals
Min(S) == CHOOSE m \in S : \A x \in S : m <= x

\* the one element of a singleton set.  The({e : x \in {v}}) is e where x
\* is the value of v: a local variable, computed once at its assignment
The(S) == CHOOSE r \in S : TRUE

\* binascii.a2b_base64(data), strict_mode off.  The C loop skips every
\* character that is neither '=' nor in the alphabet, decodes four sextets
\* into three bytes, and stops at the '=' that completes a quad
\* (quad_pos >= 2 and quad_pos + pads >= 4); it fails when the input ends
\* inside a quad.  The loop is written here position by position over the
\* kept characters: quad_pos at p is the number of alphabet characters
\* before p modulo 4, pads at p is the length of the run of '=' ending at p.
\*
\* the positions of kept at which the loop would stop
A2bStops(kept) ==
    LET before(p)   == Cardinality({q \in 1..p : kept[q] # 61})
        quad_pos(p) == before(p) % 4
        pads(p)     == p - Max({0} \cup {q \in 1..p : kept[q] # 61})
    IN  {p \in 1..Len(kept) :
            /\ kept[p] = 61
            /\ quad_pos(p) >= 2
            /\ quad_pos(p) + pads(p) >= 4}

\* the bytes of a run of sextets: three of every four, one of a trailing
\* two, two of a trailing three
A2bBytes(sextets) ==
    LET n       == Len(sextets)
        v(i)    == B64Value(sextets[i])
        nbytes  == 3 * (n \div 4)
                   + (IF n % 4 = 2 THEN 1 ELSE IF n % 4 = 3 THEN 2 ELSE 0)
        byte(j) == LET g == 4 * ((j - 1) \div 3) IN
                   CASE (j - 1) % 3 = 0 ->
                          v(g + 1) * 4 + (v(g + 2) \div 16)
                     [] (j - 1) % 3 = 1 ->
                          (v(g + 2) % 16) * 16 + (v(g + 3) \div 4)
                     [] OTHER ->
                          (v(g + 3) % 4) * 64 + v(g + 4)
    IN  [j \in 1..nbytes |-> byte(j)]

\* [ok, bytes]: ok is FALSE where a2b_base64 raises binascii.Error
A2bBase64(data) ==
    The({The({The({
        [ok    |-> stops # {} \/ Len(sextets) % 4 = 0,
         bytes |-> A2bBytes(sextets)]
        : sextets \in {SelectSeq(SubSeq(kept, 1,
                                        IF stops # {} THEN Min(stops) - 1
                                        ELSE Len(kept)), IsB64)}})
        : stops \in {A2bStops(kept)}})
        : kept \in {SelectSeq(data, IsB64OrPad)}})

b64decode(s) == A2bBase64(s)

\* '=' * n
Pad(n) == [i \in 1..n |-> 61]

\* decode_base64url that hands the URL-safe alphabet to b64decode as it is
decode_base64url_standard(data) ==
    LET padding == 4 - (Len(data) % 4) IN
    b64decode(IF padding # 4 THEN data \o Pad(padding) ELSE data)

decode_base64url(data) ==
    The({
        LET padding == 4 - (Len(replaced) % 4) IN
        b64decode(IF padding # 4 THEN replaced \o Pad(padding) ELSE replaced)
        : replaced \in {[i \in 1..Len(data) |->
                            IF data[i] = 45 THEN 43
                            ELSE IF data[i] = 95 THEN 47 ELSE data[i]]}})

(***************************************************************************)
(* json.loads on bytes, for the ASCII subset of JSON: objects, arrays,     *)
(* strings without escapes, integers, true, false, null and whitespace.    *)
(* Bytes outside 1..127, backslash escapes, fractions, exponents and       *)
(* NaN/Infinity are outside the modelled inputs and are rejected.          *)
(* A scan result is [ok, v, i]: i is the position after the value.         *)
(***************************************************************************)
ScanFail == [ok |-> FALSE, v |-> JNull, i |-> 0]

ScanOk(v, i) == [ok |-> TRUE, v |-> v, i |-> i]

RECURSIVE SkipWs(_, _)
\* json.decoder.WHITESPACE.match(s, i).end()
SkipWs(b, i) ==
    IF i <= Len(b) /\ b[i] \in {32, 9, 10, 13} THEN SkipWs(b, i + 1) ELSE i

\* s[i:i+len(lit)] == lit
MatchAt(b, i, lit) ==
    /\ i + Len(lit) - 1 <= Len(b)
    /\ \A k \in 1..Len(lit) : b[i + k - 1] = lit[k]

\* json.decoder.scanstring (strict) for strings without escapes: i is the
\* position after the opening quote, the string ends at the next quote
ScanString(b, i) ==
    The({
        IF quotes = {} THEN ScanFail
        ELSE LET end == Min(quotes) IN
             IF \E q \in i..(end - 1) : b[q] < 32 \/ b[q] = 92
             THEN ScanFail
             ELSE ScanOk(JStr(SubSeq(b, i, end - 1)), end + 1)
        : quotes \in {{q \in i..Len(b) : b[q] = 34}}})

IsDigit(ch) == ch >= 48 /\ ch <= 57

RECURSIVE ScanDigits(_, _, _)
ScanDigits(b, i, acc) ==
    IF i <= Len(b) /\ IsDigit(b[i])
    THEN ScanDigits(b, i + 1, acc * 10 + (b[i] - 48))
    ELSE [n |-> acc, i |-> i]

\* json.scanner.NUMBER_RE, integer part only: -?(0|[1-9]\d*)
ScanNumber(b, i) ==
    LET neg == i <= Len(b) /\ b[i] = 45
        j   == IF neg THEN i + 1 ELSE i
    IN  IF j > Len(b) \/ ~IsDigit(b[j]) THEN ScanFail
        ELSE The({
            IF d.i <= Len(b) /\ b[d.i] \in {46, 101, 69}
            THEN ScanFail
            ELSE ScanOk(JNum(IF neg THEN 0 - d.n ELSE d.n), d.i)
            : d \in {IF b[j] = 48 THEN [n |-> 0, i |-> j + 1]
                     ELSE ScanDigits(b, j, 0)}})

RECURSIVE ScanValue(_, _)
RECURSIVE ScanMembers(_, _, _)
RECURSIVE ScanElements(_, _, _)

\* json.decoder.JSONObject after '{' and whitespace, i at the key's quote
ScanMembers(b, i, acc) ==
    IF i > Len(b) \/ b[i] # 34 THEN ScanFail
    ELSE The({
        IF ~key.ok THEN ScanFail
        ELSE LET j == SkipWs(b, key.i) IN
             IF j > Len(b) \/ b[j] # 58 THEN ScanFail
             ELSE The({
                 IF ~val.ok THEN ScanFail
                 ELSE LET m    == SkipWs(b, val.i)
                          acc2 == DictPut(acc, key.v.s, val.v)
                      IN  IF m > Len(b) THEN ScanFail
                          ELSE IF b[m] = 125 THEN ScanOk(JObj(acc2), m + 1)
                          ELSE IF b[m] = 44
                          THEN ScanMembers(b, SkipWs(b, m + 1), acc2)
                          ELSE ScanFail
                 : val \in {ScanValue(b, SkipWs(b, j + 1))}})
        : key \in {ScanString(b, i + 1)}})

\* json.decoder.JSONArray after '[' and whitespace, i at the next element
ScanElements(b, i, acc) ==
    The({
        IF ~val.ok THEN ScanFail
        ELSE LET m    == SkipWs(b, val.i)
                 acc2 == Append(acc, Elem(val.v))
             IN  IF m > Len(b) THEN ScanFail
                 ELSE IF b[m] = 93 THEN ScanOk(JArr(acc2), m + 1)
                 ELSE IF b[m] = 44
                 THEN ScanElements(b, SkipWs(b, m + 1), acc2)
                 ELSE ScanFail
        : val \in {ScanValue(b, i)}})

\* json.scanner.py_make_scanner._scan_once
ScanValue(b, i) ==
    IF i > Len(b) THEN ScanFail
    ELSE IF b[i] = 34 THEN ScanString(b, i + 1)
    ELSE IF b[i] = 123
    THEN LET j == SkipWs(b, i + 1) IN
         IF j <= Len(b) /\ b[j] = 125 THEN ScanOk(JObj(<<>>), j + 1)
         ELSE ScanMembers(b, j, <<>>)
    ELSE IF b[i] = 91
    THEN LET j == SkipWs(b, i + 1) IN
         IF j <= Len(b) /\ b[j] = 93 THEN ScanOk(JArr(<<>>), j + 1)
         ELSE ScanElements(b, j, <<>>)
    ELSE IF MatchAt(b, i, <<110, 117, 108, 108>>) THEN ScanOk(JNull, i + 4)
    ELSE IF MatchAt(b, i, <<116, 114, 117, 101>>)
    THEN ScanOk(JBool(TRUE), i + 4)
    ELSE IF MatchAt(b, i, <<102, 97, 108, 115, 101>>)
    THEN ScanOk(JBool(FALSE), i + 5)
    ELSE ScanNumber(b, i)

\* json.loads(bytes): [ok, v]; ok is FALSE where json.loads raises
json_loads(b) ==
    IF \E k \in 1..Len(b) : b[k] < 1 \/ b[k] > 127
    THEN [ok |-> FALSE, v |-> JNull]
    ELSE The({
        IF r.ok /\ SkipWs(b, r.i) = Len(b) + 1
        THEN [ok |-> TRUE, v |-> r.v]
        ELSE [ok |-> FALSE, v |-> JNull]
        : r \in {ScanValue(b, SkipWs(b, 1))}})

(***************************************************************************)
(* Python values the handlers meet                                         *)
(***************************************************************************)
\* None where a str is expected (form_data.get / json_data.get of a missing
\* key): no string has a negative code point
None == <<-1>>

\* 'iss'
K_iss == <<105, 115, 115>>

\* 'sub'
K_sub == <<115, 117, 98>>

\* 'vp'
K_vp == <<118, 112>>

\* 'verifiableCredential'
K_verifiableCredential ==
    <<118, 101, 114, 105, 102, 105, 97, 98, 108, 101, 67, 114, 101, 100, 101, 110, 116, 105, 97, 108>>

\* dict.get(k): the member's value, None when the key is absent
DictGet(j, k) ==
    IF \E i \in 1..Len(j.c) : j.c[i].k = k
    THEN j.c[CHOOSE i \in 1..Len(j.c) : j.c[i].k = k].v
    ELSE JNull

\* needle in haystack, for two str
IsSubstring(needle, hay) ==
    \E i \in 0..(Len(hay) - Len(needle)) :
        \A k \in 1..Len(needle) : hay[i + k] = needle[k]

\* the expression  k in j  for a str k: "yes", "no", or "raise" where Python
\* raises TypeError (None, bool and int are not containers)
Contains(j, k) ==
    CASE j.t = "obj" ->
            IF \E i \in 1..Len(j.c) : j.c[i].k = k THEN "yes" ELSE "no"
      [] j.t = "arr" ->
            IF \E i \in 1..Len(j.c) : j.c[i].v = JStr(k) THEN "yes" ELSE "no"
      [] j.t = "str" -> IF IsSubstring(k, j.s) THEN "yes" ELSE "no"
      [] OTHER -> "raise"

\* str(e) of the TypeError of  k in j
NotIterableMsg(j) ==
    CASE j.t = "null" -> "argument of type 'NoneType' is not iterable"
      [] j.t = "bool" -> "argument of type 'bool' is not iterable"
      [] OTHER        -> "argument of type 'int' is not iterable"

\* str(e) of the TypeError of  j[k]  for a str k and a list or str j
BadIndexMsg(j) ==
    IF j.t = "arr" THEN "list indices must be integers or slices, not str"
    ELSE "string indices must be integers, not 'str'"

\* str(e) of the AttributeError of  j.get
NoGetMsg(j) ==
    CASE j.t = "null" -> "'NoneType' object has no attribute 'get'"
      [] j.t = "bool" -> "'bool' object has no attribute 'get'"
      [] j.t = "num"  -> "'int' object has no attribute 'get'"
      [] j.t = "str"  -> "'str' object has no attribute 'get'"
      [] OTHER        -> "'list' object has no attribute 'get'"

(***************************************************************************)
(* Token Codec                                                             *)
(***************************************************************************)
\* str.split('.'): the segments between consecutive dots
split(str) ==
    The({
        LET \* the position of the k-th dot; 0 and Len + 1 bound the string
            dot(k) == IF k = 0 THEN 0
                      ELSE IF k > Cardinality(dots) THEN Len(str) + 1
                      ELSE CHOOSE d \in dots :
                              Cardinality({e \in dots : e < d}) = k - 1
        IN  [k \in 1..(Cardinality(dots) + 1) |->
                SubSeq(str, dot(k - 1) + 1, dot(k) - 1)]
        : dots \in {{i \in 1..Len(str) : str[i] = 46}}})

ParseFail(msg) ==
    [ok |-> FALSE, header |-> JNull, payload |-> JNull, signature |-> <<>>,
     error |-> msg]

\* json.loads(decode_base64url(seg)): [ok, v, error]
LoadSegment(seg) ==
    The({
        IF ~raw.ok
        THEN [ok |-> FALSE, v |-> JNull,
              error |-> "Failed to parse JWT: Incorrect padding"]
        ELSE The({
            IF ~js.ok
            THEN [ok |-> FALSE, v |-> JNull,
                  error |-> "Failed to parse JWT: Expecting value"]
            ELSE [ok |-> TRUE, v |-> js.v, error |-> ""]
            : js \in {json_loads(raw.bytes)}})
        : raw \in {decode_base64url(seg)}})

\* [ok, header, payload, signature, error]; ok is FALSE where the function
\* raises ValueError, error is then str(e)
parse_jwt_without_verification(token) ==
    IF token = None
    THEN ParseFail(
          "Failed to parse JWT: 'NoneType' object has no attribute 'split'")
    ELSE The({
        IF Len(parts) # 3
        THEN ParseFail("Failed to parse JWT: Invalid JWT format")
        ELSE The({
            IF ~header.ok THEN ParseFail(header.error)
            ELSE The({
                IF ~payload.ok THEN ParseFail(payload.error)
                ELSE [ok |-> TRUE, header |-> header.v,
                      payload |-> payload.v, signature |-> parts[3],
                      error |-> ""]
                : payload \in {LoadSegment(parts[2])}})
            : header \in {LoadSegment(parts[1])}})
        : parts \in {split(token)}})

(***************************************************************************)
(* Credential Extractor                                                    *)
(***************************************************************************)
\* the three kinds of entry of the credentials list
JwtCredential(header, payload) ==
    [type |-> "jwt", header |-> header, payload |-> payload,
     value |-> <<>>, data |-> JNull]

StringCredential(vc) ==
    [type |-> "string", header |-> JNull, payload |-> JNull,
     value |-> vc, data |-> JNull]

ObjectCredential(vc) ==
    [type |-> "object", header |-> JNull, payload |-> JNull,
     value |-> <<>>, data |-> vc]

\* CredentialOf that keeps every string as it is, decodable or not
CredentialOfOpaque(vc) ==
    IF vc.t = "str" THEN StringCredential(vc.s) ELSE ObjectCredential(vc)

\* the body of the loop over vcs
CredentialOf(vc) ==
    IF vc.t = "str"
    THEN The({
        IF decoded_vc.ok
        THEN JwtCredential(decoded_vc.header, decoded_vc.payload)
        ELSE StringCredential(vc.s)
        : decoded_vc \in {parse_jwt_without_verification(vc.s)}})
    ELSE ObjectCredential(vc)

ExtractOk(credentials) ==
    [ok |-> TRUE, credentials |-> credentials, error |-> ""]

ExtractRaise(msg) == [ok |-> FALSE, credentials |-> <<>>, error |-> msg]

\* [ok, credentials, error]; ok is FALSE where the function raises TypeError
extract_credentials_from_vp(payload) ==
    LET hasVp == Contains(payload, K_vp) IN
    IF hasVp = "raise" THEN ExtractRaise(NotIterableMsg(payload))
    ELSE IF hasVp = "no" THEN ExtractOk(<<>>)
    ELSE IF payload.t # "obj" THEN ExtractRaise(BadIndexMsg(payload))
    ELSE LET vp    == DictGet(payload, K_vp)
             hasVc == Contains(vp, K_verifiableCredential)
         IN  IF hasVc = "raise" THEN ExtractRaise(NotIterableMsg(vp))
             ELSE IF hasVc = "no" THEN ExtractOk(<<>>)
             ELSE IF vp.t # "obj" THEN ExtractRaise(BadIndexMsg(vp))
             ELSE LET vcs == DictGet(vp, K_verifiableCredential) IN
                  IF vcs.t = "arr"
                  THEN ExtractOk([i \in 1..Len(vcs.c) |->
                                     CredentialOf(vcs.c[i].v)])
                  ELSE ExtractOk(<<>>)

\* HolderOf that reads the subject claim only
HolderOfSubject(payload) == DictGet(payload, K_sub)

\* payload.get('iss') or payload.get('sub'), for a dict payload
HolderOf(payload) ==
    IF Truthy(DictGet(payload, K_iss)) THEN DictGet(payload, K_iss)
    ELSE DictGet(payload, K_sub)

(***************************************************************************)
(* Tokens presented to the verifier                                        *)
(***************************************************************************)
\* e30.eyJpc3MiOiJhIn0.s
TokIss ==
    <<101, 51, 48, 46, 101, 121, 74, 112, 99, 51, 77, 105, 79, 105, 74,
      104, 73, 110, 48, 46, 115>>

\* e30.eyJzdWIiOiJiIn0.s
TokSub ==
    <<101, 51, 48, 46, 101, 121, 74, 122, 100, 87, 73, 105, 79, 105, 74,
      105, 73, 110, 48, 46, 115>>

\* e30.eyJpc3MiOiJhIiwic3ViIjoiYiJ9.s
TokBoth ==
    <<101, 51, 48, 46, 101, 121, 74, 112, 99, 51, 77, 105, 79, 105, 74,
      104, 73, 105, 119, 105, 99, 51, 86, 105, 73, 106, 111, 105, 89, 105,
      74, 57, 46, 115>>

\* e30.eyJpc3MiOiIifQ.s
TokEmptyIss ==
    <<101, 51, 48, 46, 101, 121, 74, 112, 99, 51, 77, 105, 79, 105, 73,
      105, 102, 81, 46, 115>>

\* e30.e30.s
TokNoClaims ==
    <<101, 51, 48, 46, 101, 51, 48, 46, 115>>

\* e30.eyJpc3MiOiJhIiwidnAiOm51bGx9.s
TokVpNull ==
    <<101, 51, 48, 46, 101, 121, 74, 112, 99, 51, 77, 105, 79, 105, 74,
      104, 73, 105, 119, 105, 100, 110, 65, 105, 79, 109, 53, 49, 98, 71,
      120, 57, 46, 115>>

\* e30.W10.s
TokListPayload ==
    <<101, 51, 48, 46, 87, 49, 48, 46, 115>>

\* e30.eyJpc3MiOiJhIn0
TokTwoSeg ==
    <<101, 51, 48, 46, 101, 121, 74, 112, 99, 51, 77, 105, 79, 105, 74,
      104, 73, 110, 48>>

\* e30.eyJpc3MiOiJhIn0.s.t
TokFourSeg ==
    <<101, 51, 48, 46, 101, 121, 74, 112, 99, 51, 77, 105, 79, 105, 74,
      104, 73, 110, 48, 46, 115, 46, 116>>

\* e30.!!.s
TokBadPayload ==
    <<101, 51, 48, 46, 33, 33, 46, 115>>

\* x.eyJpc3MiOiJhIn0.s
TokBadHeader ==
    <<120, 46, 101, 121, 74, 112, 99, 51, 77, 105, 79, 105, 74, 104, 73,
      110, 48, 46, 115>>

\* e30=.eyJpc3MiOiJhIn0=.s
TokPadded ==
    <<101, 51, 48, 61, 46, 101, 121, 74, 112, 99, 51, 77, 105, 79, 105, 74,
      104, 73, 110, 48, 61, 46, 115>>

\* e30.eyJzdWIiOiI-Pj4_In0.s
TokUrlSafe ==
    <<101, 51, 48, 46, 101, 121, 74, 122, 100, 87, 73, 105, 79, 105, 73,
      45, 80, 106, 52, 95, 73, 110, 48, 46, 115>>

\* e30.eyJpc3MiOiJhIiwidnAiOnsidmVyaWZpYWJsZUNyZWRlbnRpYWwiOlsiZTMwLmV5SnBaQ0k2TVgwLnMiLCJ6eiIseyJrIjp0cnVlfV19fQ.s
TokVc ==
    <<101, 51, 48, 46, 101, 121, 74, 112, 99, 51, 77, 105, 79, 105, 74,
      104, 73, 105, 119, 105, 100, 110, 65, 105, 79, 110, 115, 105, 100,
      109, 86, 121, 97, 87, 90, 112, 89, 87, 74, 115, 90, 85, 78, 121, 90,
      87, 82, 108, 98, 110, 82, 112, 89, 87, 119, 105, 79, 108, 115, 105,
      90, 84, 77, 119, 76, 109, 86, 53, 83, 110, 66, 97, 81, 48, 107, 50,
      84, 86, 103, 119, 76, 110, 77, 105, 76, 67, 74, 54, 101, 105, 73,
      115, 101, 121, 74, 114, 73, 106, 112, 48, 99, 110, 86, 108, 102, 86,
      49, 57, 102, 81, 46, 115>>

(***************************************************************************)
(* Bounds and inputs                                                       *)
(***************************************************************************)
\* sessions created in a run
MaxSessions == 2

\* callbacks that reach the body read in a run
MaxCallbacks == 2

\* readings of datetime.utcnow() are 0..MaxClock
MaxClock == 1

\* an optional dict key or response field: absent, or present with a value
Absent == <<>>

Some(x) == <<x>>

\* the n-th value of str(uuid.uuid4()) is n
RequestIds == 1..MaxSessions

\* secrets.token_urlsafe(32) returns 256 random bits, so two calls return
\* different values: the state minted for the n-th session is 'S' and the
\* digit n, its nonce is 'N' and the digit n
StateOf(n) == <<83, 48 + n>>

NonceOf(n) == <<78, 48 + n>>

States == {StateOf(n) : n \in RequestIds}

\* requested_credentials = None: a List[str] never holds None
NoneList == <<None>>

\* ['VerifiableId']
DefaultCredentials ==
    <<<<86, 101, 114, 105, 102, 105, 97, 98, 108, 101, 73, 100>>>>

\* 'Verification'
DefaultPurpose ==
    <<86, 101, 114, 105, 102, 105, 99, 97, 116, 105, 111, 110>>

\* bodies of POST /request/create that pass validation
PresentationRequests ==
    {[requested_credentials |-> rc, purpose |-> DefaultPurpose] :
        rc \in {DefaultCredentials, NoneList}}

\* tokens presented to POST /presentation/{request_id}
CallbackTokens ==
    {TokIss, TokEmptyIss, TokVpNull, TokTwoSeg, TokBadPayload, None}

JsonType == "application/json"

FormType == "application/x-www-form-urlencoded"

\* what the awaited body read gives the handler: readable is FALSE where
\* the read raises (request.json() on a body that is not JSON, .get on a
\* JSON list), else vp_token and state are what .get returns
Body(vp_token, state) ==
    [readable |-> TRUE, vp_token |-> vp_token, state |-> state]

UnreadableBody == [readable |-> FALSE, vp_token |-> None, state |-> None]

\* the bodies a callback of each content type may carry
CallbackBodies(content_type) ==
    IF content_type = FormType
    THEN {Body(TokIss, StateOf(1)), Body(None, StateOf(1))}
    ELSE {Body(t, st) : t \in CallbackTokens, st \in States}
         \cup {Body(TokIss, None), UnreadableBody}

(***************************************************************************)
(* State                                                                   *)
(***************************************************************************)
VARIABLES
    presentation_sessions,  \* request_id -> session dict
    callbacks,              \* the receive_presentation coroutines, in order
                            \* of arrival: [request_id, content_type, pc],
                            \* pc is "await" at the body read and "done"
                            \* after the return
    now,                    \* the reading of datetime.utcnow()
    response,               \* the response of the handler that returned last
    write_log,              \* request_id -> the writes of session['status']
                            \* by callbacks, in write order: [k, inflight],
                            \* k the coroutine (an index into callbacks),
                            \* inflight the other coroutines of the session
                            \* that were at the await when k wrote
    field_writer,           \* request_id -> for each key a callback writes,
                            \* the callback that assigned it last, 0 if none
    first_terminal          \* request_id -> what the first status call that
                            \* saw a terminal status returned

vars ==
    <<presentation_sessions, callbacks, now, response, write_log,
      field_writer, first_terminal>>

Created == DOMAIN presentation_sessions

\* a response: every handler fills the fields it returns
Response(op, request_id, code, detail) ==
    [op |-> op, request_id |-> request_id, code |-> code, detail |-> detail,
     status |-> Absent, state |-> Absent, nonce |-> Absent,
     pattern |-> Absent, created_at |-> Absent, completed_at |-> Absent,
     decoded |-> Absent, error |-> Absent]

NoResponse == Response("none", 0, 0, "")

NoWriter ==
    [status |-> 0, vp_token |-> 0, decoded |-> 0, completed_at |-> 0,
     error |-> 0]

Init ==
    /\ presentation_sessions = <<>>
    /\ callbacks = <<>>
    /\ now = 0
    /\ response = NoResponse
    /\ write_log = <<>>
    /\ field_writer = <<>>
    /\ first_terminal = <<>>

\* f[k] = v, adding k to the domain when it is new
Put(f, k, v) == [x \in DOMAIN f \cup {k} |-> IF x = k THEN v ELSE f[x]]

RECURSIVE Join(_, _)
\* sep.join(list)
Join(sep, list) ==
    IF Len(list) = 0 THEN <<>>
    ELSE IF Len(list) = 1 THEN list[1]
    ELSE list[1] \o sep \o Join(sep, Tail(list))

\* '|'.join(requested_credentials): [ok, pattern], ok is FALSE where join
\* raises TypeError (requested_credentials is None)
PatternOf(requested_credentials) ==
    IF requested_credentials = NoneList
    THEN [ok |-> FALSE, pattern |-> <<>>]
    ELSE [ok |-> TRUE, pattern |-> Join(<<124>>, requested_credentials)]

(***************************************************************************)
(* POST /request/create                                                    *)
(***************************************************************************)
\* NewSession with the status of a session that was never offered to a wallet
NewSessionCreated(request, state, nonce, created_at) ==
    [state |-> state, nonce |-> nonce,
     requested_credentials |-> request.requested_credentials,
     purpose |-> request.purpose,
     created_at |-> created_at, status |-> "created",
     vp_token |-> None, decoded |-> Absent,
     completed_at |-> Absent, error |-> Absent]

\* the session dict stored under the new request_id
NewSession(request, state, nonce, created_at) ==
    [state |-> state, nonce |-> nonce,
     requested_credentials |-> request.requested_credentials,
     purpose |-> request.purpose,
     created_at |-> created_at, status |-> "pending",
     vp_token |-> None, decoded |-> Absent,
     completed_at |-> Absent, error |-> Absent]

create_presentation_request(request) ==
    /\ Cardinality(Created) < MaxSessions
    /\ LET request_id == Cardinality(Created) + 1
           state      == StateOf(request_id)
           nonce      == NonceOf(request_id)
       IN  /\ presentation_sessions' =
                   Put(presentation_sessions, request_id,
                       NewSession(request, state, nonce, now))
           /\ write_log' = Put(write_log, request_id, <<>>)
           /\ field_writer' = Put(field_writer, request_id, NoWriter)
           /\ first_terminal' = Put(first_terminal, request_id, Absent)
           /\ response' =
                IF PatternOf(request.requested_credentials).ok
                THEN [Response("create", request_id, 200, "")
                        EXCEPT !.state = Some(state),
                               !.status = Some("pending")]
                ELSE Response("create", 0, 500, "Internal Server Error")
    /\ UNCHANGED <<callbacks, now>>

(***************************************************************************)
(* GET /request/{request_id}                                               *)
(***************************************************************************)
\* get_presentation_request that records in the session that the wallet
\* fetched the request
get_presentation_request_fetched(request_id) ==
    /\ response' =
         IF request_id \notin Created
         THEN Response("get", request_id, 404, "Request not found")
         ELSE LET session == presentation_sessions[request_id]
                  joined  == PatternOf(session.requested_credentials)
              IN  IF ~joined.ok
                  THEN Response("get", request_id, 500,
                                "Internal Server Error")
                  ELSE [Response("get", request_id, 200, "")
                          EXCEPT !.pattern = Some(joined.pattern),
                                 !.nonce = Some(session.nonce),
                                 !.state = Some(session.state)]
    /\ presentation_sessions' =
         IF request_id \notin Created THEN presentation_sessions
         ELSE [presentation_sessions EXCEPT ![request_id].status = "fetched"]
    /\ UNCHANGED <<callbacks, now, write_log, field_writer, first_terminal>>

get_presentation_request(request_id) ==
    /\ response' =
         IF request_id \notin Created
         THEN Response("get", request_id, 404, "Request not found")
         ELSE LET session == presentation_sessions[request_id]
                  joined  == PatternOf(session.requested_credentials)
              IN  IF ~joined.ok
                  THEN Response("get", request_id, 500,
                                "Internal Server Error")
                  ELSE [Response("get", request_id, 200, "")
                          EXCEPT !.pattern = Some(joined.pattern),
                                 !.nonce = Some(session.nonce),
                                 !.state = Some(session.state)]
    /\ UNCHANGED <<presentation_sessions, callbacks, now, write_log,
                   field_writer, first_terminal>>

(***************************************************************************)
(* POST /presentation/{request_id}                                         *)
(***************************************************************************)
\* the try block before the session is updated: [ok, decoded, error], ok is
\* FALSE where an exception reaches the except clause, error is then str(e)
DecodePresentation(vp_token) ==
    The({
        IF ~parsed.ok
        THEN [ok |-> FALSE, decoded |-> Absent, error |-> parsed.error]
        ELSE The({
            IF ~extracted.ok
            THEN [ok |-> FALSE, decoded |-> Absent,
                  error |-> extracted.error]
            ELSE IF parsed.payload.t # "obj"
            THEN [ok |-> FALSE, decoded |-> Absent,
                  error |-> NoGetMsg(parsed.payload)]
            ELSE [ok |-> TRUE,
                  decoded |-> Some([header |-> parsed.header,
                                    payload |-> parsed.payload,
                                    credentials |-> extracted.credentials,
                                    holder |-> HolderOf(parsed.payload)]),
                  error |-> ""]
            : extracted \in {extract_credentials_from_vp(parsed.payload)}})
        : parsed \in {parse_jwt_without_verification(vp_token)}})

\* the try block is a function of the token alone: its outcome for every
\* token a callback may carry
DecodedTokens == [t \in CallbackTokens |-> DecodePresentation(t)]

\* CompletedSession that consumes the state, so that it cannot be presented
\* again
CompletedSessionConsumed(session, vp_token, decoded, at) ==
    [session EXCEPT !.status = "completed",
                    !.vp_token = vp_token,
                    !.decoded = decoded,
                    !.completed_at = Some(at),
                    !.state = None]

\* CompletedSession that does not keep the raw token
CompletedSessionDropToken(session, vp_token, decoded, at) ==
    [session EXCEPT !.status = "completed",
                    !.decoded = decoded,
                    !.completed_at = Some(at)]

\* the session after the try block succeeded
CompletedSession(session, vp_token, decoded, at) ==
    [session EXCEPT !.status = "completed",
                    !.vp_token = vp_token,
                    !.decoded = decoded,
                    !.completed_at = Some(at)]

\* FailedSession that does not record the reason
FailedSessionNoReason(session, error) == [session EXCEPT !.status = "failed"]

\* FailedSession that puts the session back to pending for a retry
FailedSessionRetry(session, error) ==
    [session EXCEPT !.status = "pending", !.error = Some(error)]

\* the session after the except clause
FailedSession(session, error) ==
    [session EXCEPT !.status = "failed", !.error = Some(error)]

\* StateMismatch that rejects a missing state only
StateMissing(state, session) == state = None

\* the state check: state != session['state']
StateMismatch(state, session) == state # session.state

\* the coroutines at the await that belong to request_id, other than k
InFlight(request_id, k) ==
    {j \in 1..Len(callbacks) :
        /\ j # k
        /\ callbacks[j].request_id = request_id
        /\ callbacks[j].pc = "await"}

\* the handler up to the await of the request body
receive_presentation_begin(request_id, content_type) ==
    /\ Len(callbacks) < MaxCallbacks
    /\ IF request_id \notin Created
       THEN /\ response' =
                 Response("callback", request_id, 404, "Request not found")
            /\ UNCHANGED callbacks
       ELSE /\ callbacks' =
                 Append(callbacks, [request_id |-> request_id,
                                    content_type |-> content_type,
                                    pc |-> "await"])
            /\ UNCHANGED response
    /\ UNCHANGED <<presentation_sessions, now, write_log, field_writer,
                   first_terminal>>

\* the handler from the await to its return: k is the coroutine, body what
\* the awaited read of the request body gives
receive_presentation_resume(k, body) ==
    /\ k \in 1..Len(callbacks)
    /\ callbacks[k].pc = "await"
    /\ body \in CallbackBodies(callbacks[k].content_type)
    /\ LET request_id == callbacks[k].request_id
           session    == presentation_sessions[request_id]
           result     == DecodedTokens[body.vp_token]
       IN  /\ callbacks' = [callbacks EXCEPT ![k].pc = "done"]
           /\ IF ~body.readable
              THEN /\ response' = Response("callback", request_id, 500,
                                           "Internal Server Error")
                   /\ UNCHANGED <<presentation_sessions, write_log,
                                  field_writer>>
              ELSE IF StateMismatch(body.state, session)
              THEN /\ response' = Response("callback", request_id, 400,
                                           "Invalid state")
                   /\ UNCHANGED <<presentation_sessions, write_log,
                                  field_writer>>
              ELSE IF result.ok
              THEN /\ presentation_sessions' =
                        [presentation_sessions EXCEPT ![request_id] =
                            CompletedSession(session, body.vp_token,
                                             result.decoded, now)]
                   /\ write_log' =
                        [write_log EXCEPT ![request_id] =
                            Append(@, [k |-> k,
                                       inflight |-> InFlight(request_id, k)])]
                   /\ field_writer' =
                        [field_writer EXCEPT ![request_id] =
                            [@ EXCEPT !.status = k, !.vp_token = k,
                                      !.decoded = k, !.completed_at = k]]
                   /\ response' =
                        [Response("callback", request_id, 200,
                                  "Presentation received and verified")
                           EXCEPT !.status = Some("success")]
              ELSE /\ presentation_sessions' =
                        [presentation_sessions EXCEPT ![request_id] =
                            FailedSession(session, result.error)]
                   /\ write_log' =
                        [write_log EXCEPT ![request_id] =
                            Append(@, [k |-> k,
                                       inflight |-> InFlight(request_id, k)])]
                   /\ field_writer' =
                        [field_writer EXCEPT ![request_id] =
                            [@ EXCEPT !.status = k, !.error = k]]
                   /\ response' =
                        [Response("callback", request_id, 400,
                                  "Invalid VP token")
                           EXCEPT !.error = Some(result.error)]
    /\ UNCHANGED <<now, first_terminal>>

(***************************************************************************)
(* GET /presentation/{request_id}/status                                   *)
(***************************************************************************)
\* the response dict of a known session
StatusResponse(request_id, session) ==
    LET base == [Response("status", request_id, 200, "")
                   EXCEPT !.status = Some(session.status),
                          !.created_at = Some(session.created_at)]
    IN  IF session.status = "completed"
        THEN [base EXCEPT !.completed_at = Some(session.completed_at),
                          !.decoded = Some(session.decoded)]
        ELSE IF session.status = "failed"
        THEN [base EXCEPT !.error = Some(session.error)]
        ELSE base

\* get_presentation_status that makes a pending record for an id it does not
\* know, as a dict with a default would
get_presentation_status_on_demand(request_id) ==
    /\ presentation_sessions' =
         IF request_id \in Created THEN presentation_sessions
         ELSE Put(presentation_sessions, request_id,
                  [state |-> StateOf(request_id),
                   nonce |-> NonceOf(request_id),
                   requested_credentials |-> DefaultCredentials,
                   purpose |-> DefaultPurpose,
                   created_at |-> now, status |-> "pending",
                   vp_token |-> None, decoded |-> Absent,
                   completed_at |-> Absent, error |-> Absent])
    /\ write_log' = IF request_id \in Created THEN write_log
                    ELSE Put(write_log, request_id, <<>>)
    /\ field_writer' = IF request_id \in Created THEN field_writer
                       ELSE Put(field_writer, request_id, NoWriter)
    /\ first_terminal' = IF request_id \in Created THEN first_terminal
                         ELSE Put(first_terminal, request_id, Absent)
    /\ response' =
         StatusResponse(request_id, presentation_sessions'[request_id])
    /\ UNCHANGED <<callbacks, now>>

get_presentation_status(request_id) ==
    /\ IF request_id \notin Created
       THEN /\ response' =
                 Response("status", request_id, 404, "Request not found")
            /\ UNCHANGED first_terminal
       ELSE LET session == presentation_sessions[request_id]
                reply   == StatusResponse(request_id, session)
            IN  /\ response' = reply
                /\ first_terminal' =
                     IF /\ session.status # "pending"
                        /\ first_terminal[request_id] = Absent
                     THEN [first_terminal EXCEPT ![request_id] = Some(reply)]
                     ELSE first_terminal
    /\ UNCHANGED <<presentation_sessions, callbacks, now, write_log,
                   field_writer>>

(***************************************************************************)
(* Time passes between two readings of datetime.utcnow()                   *)
(***************************************************************************)
Tick ==
    /\ now < MaxClock
    /\ now' = now + 1
    /\ UNCHANGED <<presentation_sessions, callbacks, response, write_log,
                   field_writer, first_terminal>>

Next ==
    \/ \E request \in PresentationRequests :
          create_presentation_request(request)
    \/ \E request_id \in RequestIds : get_presentation_request(request_id)
    \/ \E request_id \in RequestIds, content_type \in {JsonType, FormType} :
          receive_presentation_begin(request_id, content_type)
    \/ \E k \in 1..MaxCallbacks :
          \E body \in CallbackBodies(JsonType) \cup CallbackBodies(FormType) :
             receive_presentation_resume(k, body)
    \/ \E request_id \in RequestIds : get_presentation_status(request_id)
    \/ Tick

Spec == Init /\ [][Next]_vars

(***************************************************************************)
(* POST /decode                                                            *)
(***************************************************************************)
\* str.isspace() for the ASCII range
IsSpace(ch) == ch \in {9, 10, 11, 12, 13, 28, 29, 30, 31, 32}

\* str.strip()
strip(str) ==
    The({
        IF kept = {} THEN <<>> ELSE SubSeq(str, Min(kept), Max(kept))
        : kept \in {{i \in 1..Len(str) : ~IsSpace(str[i])}}})

\* the positions at which sep starts in str
Occurrences(str, sep) ==
    {i \in 1..(Len(str) - Len(sep) + 1) :
        \A k \in 1..Len(sep) : str[i + k - 1] = sep[k]}

\* str.split(sep)[0]
SplitFirst(str, sep) ==
    The({
        IF occ = {} THEN str ELSE SubSeq(str, 1, Min(occ) - 1)
        : occ \in {Occurrences(str, sep)}})

\* str.split(sep)[1], for a str that contains sep: what lies between the
\* first occurrence of sep and the next one that does not overlap it
SplitSecond(str, sep) ==
    The({
        LET from  == Min(occ) + Len(sep)
            later == {i \in occ : i >= from}
        IN  SubSeq(str, from,
                   IF later = {} THEN Len(str) ELSE Min(later) - 1)
        : occ \in {Occurrences(str, sep)}})

IsHex(ch) == IsDigit(ch) \/ (ch >= 65 /\ ch <= 70) \/ (ch >= 97 /\ ch <= 102)

HexValue(ch) ==
    IF IsDigit(ch) THEN ch - 48 ELSE IF ch >= 97 THEN ch - 87 ELSE ch - 55

\* urllib.parse.unquote(str), for escapes below %80: every '%' followed by
\* two hex digits becomes the character of that code, anything else stays.
\* An escape of %80 and above is a byte of a UTF-8 sequence and is outside
\* the modelled inputs.
unquote(str) ==
    The({The({
        [n \in 1..Len(idx) |->
            IF idx[n] \in escapes
            THEN 16 * HexValue(str[idx[n] + 1]) + HexValue(str[idx[n] + 2])
            ELSE str[idx[n]]]
        : idx \in {LET kept(i) == \A e \in escapes : i # e + 1 /\ i # e + 2
                   IN  SelectSeq([i \in 1..Len(str) |-> i], kept)}})
        : escapes \in {{i \in 1..(Len(str) - 2) :
                          /\ str[i] = 37
                          /\ IsHex(str[i + 1])
                          /\ IsHex(str[i + 2])}}})

\* 'vp_token='
VpTokenEq ==
    <<118, 112, 95, 116, 111, 107, 101, 110, 61>>

\* the token the handler hands to the codec: stripped, taken out of a
\* query string when it is in one, percent-decoded
RequestToken(token) ==
    The({
        unquote(IF IsSubstring(VpTokenEq, stripped)
                THEN SplitFirst(SplitSecond(stripped, VpTokenEq), <<38>>)
                ELSE stripped)
        : stripped \in {strip(token)}})

\* the response model: every field the handler does not pass is None
VPTokenResponse(success, decoded_token, header, payload, credentials, holder, error) ==
    [op |-> "decode", success |-> success, decoded_token |-> decoded_token,
     header |-> header, payload |-> payload, credentials |-> credentials,
     holder |-> holder, error |-> error]

\* VPTokenResponse(success=False, error=str(e))
DecodeFailure(error) ==
    VPTokenResponse(FALSE, Absent, Absent, Absent, Absent, JNull,
                    Some(error))

\* what the handler returns.  header and payload are declared
\* Optional[Dict[str, Any]]: a decoded value that is not a dict makes the
\* construction of the response raise inside the try block.  A holder that
\* is neither a str nor None is refused or converted, depending on the
\* pydantic release; the requests drawn below keep the holder a str or None.
DecodeResponse(token) ==
    The({
        IF ~parsed.ok THEN DecodeFailure(parsed.error)
        ELSE The({
            IF ~extracted.ok THEN DecodeFailure(extracted.error)
            ELSE IF parsed.payload.t # "obj"
            THEN DecodeFailure(NoGetMsg(parsed.payload))
            ELSE IF parsed.header.t # "obj"
            THEN DecodeFailure("1 validation error for VPTokenResponse")
            ELSE VPTokenResponse(
                    TRUE,
                    Some([header |-> parsed.header,
                          payload |-> parsed.payload,
                          signature |-> parsed.signature]),
                    Some(parsed.header), Some(parsed.payload),
                    Some(extracted.credentials),
                    HolderOf(parsed.payload), Absent)
            : extracted \in {extract_credentials_from_vp(parsed.payload)}})
        : parsed \in {parse_jwt_without_verification(RequestToken(token))}})

(***************************************************************************)
(* Tokens, payloads and requests for the stateless operations              *)
(***************************************************************************)
\* 'cnf'
K_cnf == <<99, 110, 102>>

\* 'kid'
K_kid == <<107, 105, 100>>

\* e30.eyJjbmYiOnsia2lkIjoiayJ9fQ.s
TokCnf ==
    <<101, 51, 48, 46, 101, 121, 74, 106, 98, 109, 89, 105, 79, 110, 115,
      105, 97, 50, 108, 107, 73, 106, 111, 105, 97, 121, 74, 57, 102, 81,
      46, 115>>

\* e30.eyJpc3MiOiJhIiwiY25mIjp7ImtpZCI6ImsifX0.s
TokIssCnf ==
    <<101, 51, 48, 46, 101, 121, 74, 112, 99, 51, 77, 105, 79, 105, 74,
      104, 73, 105, 119, 105, 89, 50, 53, 109, 73, 106, 112, 55, 73, 109,
      116, 112, 90, 67, 73, 54, 73, 109, 115, 105, 102, 88, 48, 46, 115>>

\* ' e30.eyJpc3MiOiJhIn0.s\n'
TokSpaced ==
    <<32, 101, 51, 48, 46, 101, 121, 74, 112, 99, 51, 77, 105, 79, 105,
      74, 104, 73, 110, 48, 46, 115, 10>>

\* vp_token=e30.eyJzdWIiOiJiIn0.s&state=x
TokInQuery ==
    <<118, 112, 95, 116, 111, 107, 101, 110, 61, 101, 51, 48, 46, 101, 121,
      74, 122, 100, 87, 73, 105, 79, 105, 74, 105, 73, 110, 48, 46, 115,
      38, 115, 116, 97, 116, 101, 61, 120>>

\* e30%2EeyJpc3MiOiJhIiwic3ViIjoiYiJ9%2Es
TokQuoted ==
    <<101, 51, 48, 37, 50, 69, 101, 121, 74, 112, 99, 51, 77, 105, 79,
      105, 74, 104, 73, 105, 119, 105, 99, 51, 86, 105, 73, 106, 111, 105,
      89, 105, 74, 57, 37, 50, 69, 115>>

\* the bodies of POST /decode: request.token
DecodeRequests ==
    {TokIss, TokSub, TokBoth, TokEmptyIss, TokNoClaims, TokCnf, TokIssCnf,
     TokVc, TokPadded, TokUrlSafe, TokSpaced, TokInQuery, TokQuoted,
     TokVpNull, TokListPayload, TokTwoSeg, TokFourSeg, TokBadPayload,
     TokBadHeader}

\* the handler is a function of the request alone
DecodeResponses == [token \in DecodeRequests |-> DecodeResponse(token)]

\* json.dumps(n) for an int
RECURSIVE Digits(_)
Digits(n) ==
    IF n < 0 THEN <<45>> \o Digits(0 - n)
    ELSE IF n < 10 THEN <<48 + n>>
    ELSE Digits(n \div 10) \o <<48 + (n % 10)>>

RECURSIVE json_dumps(_)
RECURSIVE DumpMembers(_, _)
\* the members or elements from the i-th on, separated by ', '
DumpMembers(j, i) ==
    IF i > Len(j.c) THEN <<>>
    ELSE (IF i > 1 THEN <<44, 32>> ELSE <<>>)
         \o (IF j.t = "obj" THEN <<34>> \o j.c[i].k \o <<34, 58, 32>>
             ELSE <<>>)
         \o json_dumps(j.c[i].v)
         \o DumpMembers(j, i + 1)

\* json.dumps(j) for a value whose strings need no escape
json_dumps(j) ==
    CASE j.t = "null" -> <<110, 117, 108, 108>>
      [] j.t = "bool" -> IF j.n = 1 THEN <<116, 114, 117, 101>>
                         ELSE <<102, 97, 108, 115, 101>>
      [] j.t = "num"  -> Digits(j.n)
      [] j.t = "str"  -> <<34>> \o j.s \o <<34>>
      [] j.t = "arr"  -> <<91>> \o DumpMembers(j, 1) \o <<93>>
      [] OTHER        -> <<123>> \o DumpMembers(j, 1) \o <<125>>

\* the character of a 6-bit value in the URL-safe alphabet
B64UrlChar(v) ==
    CASE v < 26 -> 65 + v
      [] v < 52 -> 71 + v
      [] v < 62 -> v - 4
      [] v = 62 -> 45
      [] OTHER  -> 95

\* base64.urlsafe_b64encode(bytes)
urlsafe_b64encode(bytes) ==
    The({
        LET n       == Len(b)
            byte(i) == IF i <= n THEN b[i] ELSE 0
            ndata   == (8 * n + 5) \div 6
            char(p) ==
                LET g == 3 * ((p - 1) \div 4)
                    r == (p - 1) % 4
                IN  IF p > ndata THEN 61
                    ELSE B64UrlChar(
                        CASE r = 0 -> byte(g + 1) \div 4
                          [] r = 1 -> (byte(g + 1) % 4) * 16
                                      + (byte(g + 2) \div 16)
                          [] r = 2 -> (byte(g + 2) % 16) * 4
                                      + (byte(g + 3) \div 64)
                          [] OTHER -> byte(g + 3) % 64)
        IN  [p \in 1..(4 * ((n + 2) \div 3)) |-> char(p)]
        : b \in {bytes}})

IsNotPad(ch) == ch # 61

\* a segment that encodes j: padded is TRUE for the padded form, FALSE for
\* the form with the '=' stripped
Segment(j, padded) ==
    IF padded THEN urlsafe_b64encode(json_dumps(j))
    ELSE SelectSeq(urlsafe_b64encode(json_dumps(j)), IsNotPad)

\* first '.' middle '.' third
Token(first, middle, third) == first \o <<46>> \o middle \o <<46>> \o third

\* the keys and values of the objects encoded as a middle segment
ClaimKeys == {K_iss, K_sub, K_cnf, K_vp, <<97>>}

ClaimValues ==
    {JStr(<<97>>), JStr(<<62, 62, 62, 63>>), JStr(<<>>), JNull, JNum(0),
     JNum(-12), JBool(TRUE),
     JArr(<<Elem(JNum(1)), Elem(JStr(<<98>>))>>),
     JObj(<<[k |-> K_kid, v |-> JStr(<<107>>)]>>)}

\* the JSON objects encoded as a middle segment: {}, every {key: value},
\* and {'iss': 'a', 'sub': 'b'}
JsonObjects ==
    {JObj(<<>>),
     JObj(<<[k |-> K_iss, v |-> JStr(<<97>>)],
            [k |-> K_sub, v |-> JStr(<<98>>)]>>)}
    \cup {JObj(<<[k |-> key, v |-> value]>>) :
            key \in ClaimKeys, value \in ClaimValues}

\* first segments that encode JSON: e30 ({}), eyJhbGciOiJub25lIn0
\* ({"alg":"none"}), MQ (1)
JsonFirstSegments ==
    {<<101, 51, 48>>,
     <<101, 121, 74, 104, 98, 71, 99, 105, 79, 105, 74, 117, 98, 50, 53,
       108, 73, 110, 48>>,
     <<77, 81>>}

\* first segments of any kind: also 'x' and the empty segment
FirstSegments == JsonFirstSegments \cup {<<120>>, <<>>}

\* third segments: 's' and the empty segment
ThirdSegments == {<<115>>, <<>>}

\* the synthetic token of each choice of first segment, object, padding and
\* third segment
Synthetic ==
    [choice \in FirstSegments \X JsonObjects \X BOOLEAN \X ThirdSegments |->
        Token(choice[1], Segment(choice[2], choice[3]), choice[4])]

SyntheticTokens == {Synthetic[choice] : choice \in DOMAIN Synthetic}

\* the codec is a function of the token alone
ParsedTokens ==
    [token \in SyntheticTokens |-> parse_jwt_without_verification(token)]

\* the longest verifiableCredential list drawn
MaxVcs == 3

\* the elements of a verifiableCredential list: a token the codec decodes,
\* a string with no dot, a token whose payload does not decode, an object,
\* null
VcItems ==
    {JStr(TokNoClaims), JStr(<<122, 122>>), JStr(TokBadPayload),
     JObj(<<[k |-> <<107>>, v |-> JBool(TRUE)]>>), JNull}

\* {'vp': {'verifiableCredential': vcs}}
VpPayload(vcs) ==
    JObj(<<[k |-> K_vp,
            v |-> JObj(<<[k |-> K_verifiableCredential, v |-> vcs]>>)]>>)

\* the payloads handed to the extractor: every list of at most MaxVcs
\* items, a verifiableCredential that is not a list, a vp without
\* credentials, no vp
ExtractPayloads ==
    {VpPayload(JArr([i \in 1..n |-> Elem(items[i])])) :
        n \in 0..MaxVcs, items \in [1..MaxVcs -> VcItems]}
    \cup {VpPayload(JStr(TokNoClaims)), JObj(<<[k |-> K_vp, v |-> JObj(<<>>)]>>),
          JObj(<<>>)}

\* the extractor is a function of the payload alone
ExtractedPayloads ==
    [payload \in ExtractPayloads |-> extract_credentials_from_vp(payload)]

decode_vp_token(token) ==
    /\ response' = DecodeResponses[token]
    /\ UNCHANGED <<presentation_sessions, callbacks, now, write_log,
                   field_writer, first_terminal>>

(***************************************************************************)
(* The Token Codec and the Credential Extractor, applied by a caller: the  *)
(* response is the call, its argument and what it returned                 *)
(***************************************************************************)
call_parse_jwt_without_verification(token) ==
    /\ response' = [op |-> "parse_jwt_without_verification",
                    token |-> token, result |-> ParsedTokens[token]]
    /\ UNCHANGED <<presentation_sessions, callbacks, now, write_log,
                   field_writer, first_terminal>>

call_extract_credentials_from_vp(payload) ==
    /\ response' = [op |-> "extract_credentials_from_vp",
                    payload |-> payload,
                    result |-> ExtractedPayloads[payload]]
    /\ UNCHANGED <<presentation_sessions, callbacks, now, write_log,
                   field_writer, first_terminal>>

CodecNext ==
    \/ \E token \in DecodeRequests : decode_vp_token(token)
    \/ \E token \in SyntheticTokens :
          call_parse_jwt_without_verification(token)
    \/ \E payload \in ExtractPayloads :
          call_extract_credentials_from_vp(payload)

\* the stateless operations, each applied to every input drawn for it
CodecSpec == Init /\ [][CodecNext]_vars

(***************************************************************************)
(* Properties                                                              *)
(***************************************************************************)
AllBodies == CallbackBodies(JsonType) \cup CallbackBodies(FormType)

TerminalStatuses == {"completed", "failed", "error"}

\* no callback for request_id has arrived
NoCallbackYet(request_id) ==
    \A k \in 1..Len(callbacks) : callbacks[k].request_id # request_id

\* json.loads(decode_base64url(seg)) returns
SegmentDecodes(seg) == LoadSegment(seg).ok

\* the token is present, has exactly three dot-separated segments, and its
\* header and payload segments decode to JSON
CodecAccepts(token) ==
    /\ token # None
    /\ \E parts \in {split(token)} :
          /\ Len(parts) = 3
          /\ SegmentDecodes(parts[1])
          /\ SegmentDecodes(parts[2])

\* CodecAccepts, and the decoded payload, for the tokens a callback may carry
Accepted == {t \in CallbackTokens : CodecAccepts(t)}

PayloadOf == [t \in Accepted |-> LoadSegment(split(t)[2]).v]

\* the payload is an object with a member k
HasClaim(payload, k) ==
    /\ payload.t = "obj"
    /\ \E i \in 1..Len(payload.c) : payload.c[i].k = k

\* coroutine k takes its step from the await to the return with this body,
\* and the body carries the session's state
ResumesWithState(k, body) ==
    /\ receive_presentation_resume(k, body)
    /\ body.readable
    /\ body.state = presentation_sessions[callbacks[k].request_id].state

\* C1: after a create call that returned successfully the session stored
\* under the returned request_id has status 'pending', and a status call
\* for a session no callback has arrived for reports 'pending'.
C1_PendingAfterCreate ==
    /\ (response.op = "create" /\ response.code = 200) =>
          /\ response.request_id \in Created
          /\ presentation_sessions[response.request_id].status = "pending"
    /\ (/\ response.op = "status"
        /\ response.code = 200
        /\ NoCallbackYet(response.request_id)) =>
          response.status = Some("pending")

C1_Witness ==
    /\ response.op = "status"
    /\ response.code = 200
    /\ NoCallbackYet(response.request_id)
    /\ response.status = Some("pending")

\* C2: a callback whose presented state differs from the stored state is
\* answered 400 and leaves the session as it was, for every token it
\* carries and every status the session has.
C2_MismatchRejected ==
    [][\A k \in 1..Len(callbacks), body \in AllBodies :
          (/\ receive_presentation_resume(k, body)
           /\ body.readable
           /\ body.state # presentation_sessions[callbacks[k].request_id].state)
          => /\ response'.code = 400
             /\ response'.detail = "Invalid state"
             /\ presentation_sessions' = presentation_sessions]_vars

\* a completed session has just rejected a callback for its state
C2_Witness ==
    /\ response.op = "callback"
    /\ response.code = 400
    /\ response.detail = "Invalid state"
    /\ presentation_sessions[response.request_id].status = "completed"

C4_MalformedTokenFails ==
    [][\A k \in 1..Len(callbacks), body \in AllBodies :
          (/\ ResumesWithState(k, body)
           /\ body.vp_token \notin Accepted)
          => LET session ==
                   presentation_sessions'[callbacks[k].request_id]
             IN  /\ session.status = "failed"
                 /\ session.error # Absent
                 /\ session.error[1] # ""
                 /\ response'.code = 400]_vars

\* a callback whose token has two segments has failed a session
C4_Witness ==
    /\ response.op = "callback"
    /\ response.code = 400
    /\ response.detail = "Invalid VP token"
    /\ LET session == presentation_sessions[response.request_id] IN
          /\ session.status = "failed"
          /\ session.error = Some("Failed to parse JWT: Invalid JWT format")

\* C5: a status that is terminal never changes.
C5_TerminalIsFinal ==
    [][\A request_id \in Created :
          presentation_sessions[request_id].status \in TerminalStatuses
          => presentation_sessions'[request_id].status
                = presentation_sessions[request_id].status]_vars

\* C6: the holder, decoded claims and raw token of a completed session are
\* not overwritten.
C6_ResultKept ==
    [][\A request_id \in Created :
          presentation_sessions[request_id].status = "completed"
          => /\ presentation_sessions'[request_id].decoded
                   = presentation_sessions[request_id].decoded
             /\ presentation_sessions'[request_id].vp_token
                   = presentation_sessions[request_id].vp_token]_vars

\* the callbacks that last assigned a key of the session
Writers(request_id) ==
    {field_writer[request_id][f] :
        f \in {"status", "vp_token", "decoded", "completed_at", "error"}}
    \ {0}

\* C7: of two callbacks of a session that were at the body read together,
\* one only persists a transition, and the keys of the record are all
\* written by the same callback.
C7_OneConcurrentWrite ==
    \A request_id \in Created :
       /\ \A i, j \in 1..Len(write_log[request_id]) :
             i < j => write_log[request_id][j].k
                         \notin write_log[request_id][i].inflight
       /\ \A a, b \in Writers(request_id) :
             a # b => \A i \in 1..Len(write_log[request_id]) :
                         write_log[request_id][i].k = a
                         => b \notin write_log[request_id][i].inflight

\* what a status reply says of the outcome
Outcome(reply) ==
    [status |-> reply.status,
     holder |-> IF reply.decoded # Absent /\ reply.decoded[1] # Absent
                THEN Some(reply.decoded[1][1].holder) ELSE Absent,
     error  |-> reply.error]

\* C8: a status call made after a status call that saw a terminal status
\* reports the same status, holder and error as that first call.
C8_StableRead ==
    (/\ response.op = "status"
     /\ response.code = 200
     /\ first_terminal[response.request_id] # Absent)
    => Outcome(response) = Outcome(first_terminal[response.request_id][1])

\* C9: the status is one of pending, completed, failed, error, and a
\* status that is not 'pending' never becomes 'pending'.
C9_NoReturnToPending ==
    /\ [](\A request_id \in Created :
             presentation_sessions[request_id].status
                \in {"pending", "completed", "failed", "error"})
    /\ [][\A request_id \in Created :
             presentation_sessions[request_id].status # "pending"
             => presentation_sessions'[request_id].status # "pending"]_vars

\* a session has left 'pending' and has been written by two callbacks
C9_Witness ==
    \E request_id \in Created :
       /\ presentation_sessions[request_id].status # "pending"
       /\ Len(write_log[request_id]) = 2

\* C10: completed_at is absent while the session is pending, present once
\* the status is completed or failed, and never changes once set.
C10_CompletedAtOnce ==
    /\ [](\A request_id \in Created :
             LET session == presentation_sessions[request_id] IN
             /\ session.status = "pending" => session.completed_at = Absent
             /\ session.status \in {"completed", "failed"}
                => session.completed_at # Absent)
    /\ [][\A request_id \in Created :
             presentation_sessions[request_id].completed_at # Absent
             => presentation_sessions'[request_id].completed_at
                   = presentation_sessions[request_id].completed_at]_vars

\* C11: a session carries decoded claims (and with them a holder) only
\* while its status is 'completed', and an error reason only while its
\* status is 'failed' or 'error'.
C11_ResultMatchesStatus ==
    \A request_id \in Created :
       LET session == presentation_sessions[request_id] IN
       /\ session.decoded # Absent => session.status = "completed"
       /\ session.error # Absent => session.status \in {"failed", "error"}

\* C12: the ids in use only grow, every session keeps the state and nonce
\* minted for it, and the state a create call returns is the stored one.
C12_CorrelationFixed ==
    /\ [](\A request_id \in Created :
             /\ presentation_sessions[request_id].state = StateOf(request_id)
             /\ presentation_sessions[request_id].nonce = NonceOf(request_id))
    /\ []((response.op = "create" /\ response.code = 200)
             => response.state =
                  Some(presentation_sessions[response.request_id].state))
    /\ [][/\ Created \subseteq Created'
           /\ \A request_id \in Created :
                 /\ presentation_sessions'[request_id].state
                       = presentation_sessions[request_id].state
                 /\ presentation_sessions'[request_id].nonce
                       = presentation_sessions[request_id].nonce]_vars

\* a session that was completed by one callback and failed by a later one
\* still has the state and nonce minted for it
C12_Witness ==
    \E request_id \in Created :
       /\ Len(write_log[request_id]) = 2
       /\ presentation_sessions[request_id].status = "failed"
       /\ presentation_sessions[request_id].decoded # Absent
       /\ presentation_sessions[request_id].state = StateOf(request_id)
       /\ presentation_sessions[request_id].nonce = NonceOf(request_id)

\* C13: a get-request, callback or status call for an id no create call
\* has produced is answered 404 and leaves the store, and the set of
\* callbacks in flight, as they were.
C13_UnknownIdNotFound ==
    [][\A request_id \in RequestIds \ Created :
          /\ get_presentation_request(request_id)
                => /\ response'.code = 404
                   /\ presentation_sessions' = presentation_sessions
          /\ get_presentation_status(request_id)
                => /\ response'.code = 404
                   /\ presentation_sessions' = presentation_sessions
          /\ \A content_type \in {JsonType, FormType} :
                receive_presentation_begin(request_id, content_type)
                => /\ response'.code = 404
                   /\ presentation_sessions' = presentation_sessions
                   /\ callbacks' = callbacks]_vars

\* a status call for an id that is still unknown was answered 404 while
\* another session exists
C13_Witness ==
    /\ response.op = "status"
    /\ response.code = 404
    /\ response.request_id \notin Created
    /\ Created # {}

\* payload['cnf']['kid']: the identifier of the confirmation key
ConfirmationKeyOf(payload) ==
    LET cnf == DictGet(payload, K_cnf) IN
    IF cnf.t = "obj" THEN DictGet(cnf, K_kid) ELSE JNull

\* the holder by the claimed precedence; a claim that is null or empty
\* counts as absent, as it does for Python's `or`
ClaimedHolder(payload) ==
    IF Truthy(DictGet(payload, K_iss)) THEN DictGet(payload, K_iss)
    ELSE IF Truthy(DictGet(payload, K_sub)) THEN DictGet(payload, K_sub)
    ELSE ConfirmationKeyOf(payload)

\* C14: the holder a successful decode returns is the issuer claim, else
\* the subject claim, else the identifier of the nested confirmation key,
\* else null.
C14_HolderPrecedence ==
    (response.op = "decode" /\ response.success)
    => response.holder = ClaimedHolder(response.payload[1])

\* for every choice with one of these first segments: the codec, applied
\* to the synthetic token of the choice, returns the object of the choice
RoundTrips(firsts) ==
    response.op = "parse_jwt_without_verification"
    => \A choice \in DOMAIN Synthetic :
          (choice[1] \in firsts /\ Synthetic[choice] = response.token)
          => /\ response.result.ok
             /\ response.result.payload = choice[2]

\* C15, as claimed: whatever the first and third segments are, the codec
\* decodes the token whose middle segment encodes a JSON object and
\* returns that object as the payload.
C15_RoundTripAnyFirst == RoundTrips(FirstSegments)

\* C15, amended: when the first segment itself encodes JSON, whatever the
\* third segment is, the codec decodes the token whose middle segment
\* encodes a JSON object and returns that object as the payload.
C15_RoundTripJsonFirst == RoundTrips(JsonFirstSegments)

\* the codec returned {'vp': '>>>?'}, whose unpadded encoding has both
\* '-' and '_', from a token with an empty third segment
C15_Witness ==
    /\ response.op = "parse_jwt_without_verification"
    /\ response.token =
          Token(<<77, 81>>,
                Segment(JObj(<<[k |-> K_vp,
                                v |-> JStr(<<62, 62, 62, 63>>)]>>), FALSE),
                <<>>)
    /\ \E i \in 1..Len(response.token) : response.token[i] = 45
    /\ \E i \in 1..Len(response.token) : response.token[i] = 95
    /\ response.result.ok
    /\ response.result.payload =
          JObj(<<[k |-> K_vp, v |-> JStr(<<62, 62, 62, 63>>)]>>)

\* payload['vp']['verifiableCredential'] is a list
HasCredentialList(payload) ==
    /\ HasClaim(payload, K_vp)
    /\ HasClaim(DictGet(payload, K_vp), K_verifiableCredential)
    /\ DictGet(DictGet(payload, K_vp), K_verifiableCredential).t = "arr"

\* C17: for a payload whose vp.verifiableCredential is a list the
\* extraction returns, and its result has one entry per element, in
\* order: the decoded header and payload for a string the codec accepts,
\* the string itself for a string the codec rejects, the element itself
\* for anything else.
C17_OneEntryPerItem ==
    (/\ response.op = "extract_credentials_from_vp"
     /\ HasCredentialList(response.payload))
    => LET vcs ==
             DictGet(DictGet(response.payload, K_vp),
                     K_verifiableCredential).c
           result == response.result
       IN  /\ result.ok
           /\ Len(result.credentials) = Len(vcs)
           /\ \A i \in 1..Len(vcs) :
                 LET vc    == vcs[i].v
                     entry == result.credentials[i]
                 IN  CASE vc.t = "str" /\ CodecAccepts(vc.s) ->
                            /\ entry.type = "jwt"
                            /\ entry.header = LoadSegment(split(vc.s)[1]).v
                            /\ entry.payload = LoadSegment(split(vc.s)[2]).v
                       [] vc.t = "str" /\ ~CodecAccepts(vc.s) ->
                            /\ entry.type = "string"
                            /\ entry.value = vc.s
                       [] OTHER ->
                            /\ entry.type = "object"
                            /\ entry.data = vc

\* the extraction of [a token, a token the codec rejects, null] returned
\* a decoded entry, an opaque entry and an object entry
C17_Witness ==
    /\ response.op = "extract_credentials_from_vp"
    /\ response.payload =
          VpPayload(JArr(<<Elem(JStr(TokNoClaims)),
                           Elem(JStr(TokBadPayload)), Elem(JNull)>>))
    /\ response.result.ok
    /\ response.result.credentials =
          <<JwtCredential(JObj(<<>>), JObj(<<>>)),
            StringCredential(TokBadPayload), ObjectCredential(JNull)>>

\* C16: a create call that returns successfully adds exactly one new
\* pending session, and a create call that ends in an error adds no
\* session.
C16_CreateAllOrNothing ==
    [][\A request \in PresentationRequests :
          create_presentation_request(request)
          => IF response'.code = 200
             THEN /\ response'.request_id \notin Created
                  /\ Created' = Created \cup {response'.request_id}
                  /\ presentation_sessions'[response'.request_id].status
                        = "pending"
                  /\ \A request_id \in Created :
                        presentation_sessions'[request_id]
                          = presentation_sessions[request_id]
             ELSE presentation_sessions' = presentation_sessions]_vars

\* the decoded header for the tokens a callback may carry
HeaderOf == [t \in Accepted |-> LoadSegment(split(t)[1]).v]

\* decoded is the decoding of vp_token
DecodingOf(vp_token, decoded) ==
    /\ vp_token # None
    /\ vp_token \in Accepted
    /\ decoded # Absent
    /\ decoded[1].header = HeaderOf[vp_token]
    /\ decoded[1].payload = PayloadOf[vp_token]
    /\ decoded[1].holder = HolderOf(PayloadOf[vp_token])

\* C18: in every state, a session whose status is 'completed' has a raw
\* token that is not null, a decoded header, payload and holder that are
\* the decoding of that token, and a completion timestamp; and a status
\* response that reports 'completed' carries a completion timestamp and
\* the decoding of one token.
C18_CompletedIsWhole ==
    /\ \A request_id \in Created :
          LET session == presentation_sessions[request_id] IN
          session.status = "completed"
          => /\ DecodingOf(session.vp_token, session.decoded)
             /\ session.completed_at # Absent
    /\ (response.op = "status" /\ response.status = Some("completed"))
       => /\ response.completed_at # Absent
          /\ response.completed_at[1] # Absent
          /\ response.decoded # Absent
          /\ \E t \in Accepted : DecodingOf(t, response.decoded[1])

\* a status call saw 'completed' for a session that a callback completed
\* while another callback of the session was, and still is, at the await
C18_Witness ==
    /\ response.op = "status"
    /\ response.status = Some("completed")
    /\ response.request_id \in Created
    /\ Len(write_log[response.request_id]) = 1
    /\ write_log[response.request_id][1].inflight # {}
    /\ presentation_sessions[response.request_id].vp_token = TokEmptyIss
    /\ response.decoded =
          Some(presentation_sessions[response.request_id].decoded)
    /\ \E k \in 1..Len(callbacks) :
          /\ callbacks[k].request_id = response.request_id
          /\ callbacks[k].pc = "await"

\* C19: a callback leaves the record of every session but its own
\* unchanged, and a status call and a get-request call leave every record
\* unchanged.
C19_Isolation ==
    [][/\ \A k \in 1..Len(callbacks) :
            \A body \in CallbackBodies(callbacks[k].content_type) :
               (response'.op = "callback"
                /\ receive_presentation_resume(k, body))
               => /\ Created' = Created
                  /\ \A request_id \in Created \ {callbacks[k].request_id} :
                        presentation_sessions'[request_id]
                          = presentation_sessions[request_id]
       /\ \A request_id \in RequestIds :
            \A content_type \in {JsonType, FormType} :
               receive_presentation_begin(request_id, content_type)
               => presentation_sessions' = presentation_sessions
       /\ \A request_id \in RequestIds :
            (response'.op = "status" /\ get_presentation_status(request_id))
            => presentation_sessions' = presentation_sessions
       /\ \A request_id \in RequestIds :
            (response'.op = "get" /\ get_presentation_request(request_id))
            => presentation_sessions' = presentation_sessions]_vars

\* a callback of session 1 completed it and returned while session 2,
\* created before, is as it was created
C19_Witness ==
    /\ response.op = "callback"
    /\ response.code = 200
    /\ response.request_id = 1
    /\ {1, 2} \subseteq Created
    /\ presentation_sessions[1].status = "completed"
    /\ presentation_sessions[2].status = "pending"
    /\ presentation_sessions[2].vp_token = None
    /\ write_log[2] = <<>>

=============================================================================
